---- MODULE Spec2Model ----
(***************************************************************************)
(* Persistence layer of the hike log (src/lib/database.ts): the fallback   *)
(* store created by createMockDatabase, the DatabaseService bound to it,   *)
(* and the exported repository functions.  A second service instance bound *)
(* to the native engine (one table `hikes`, id PRIMARY KEY) receives the   *)
(* same calls in the specification SpecEq.                                 *)
(***************************************************************************)
EXTENDS Integers, Sequences, FiniteSets, TLC

\* ------------------------------------------------------------------ bounds
MaxRows == 2
MaxClock == 2

\* ------------------------------------------------------------- JS values
Undefined == "undefined"
Null == "null"

\* `v || ''` on a string-or-missing value: undefined, null and '' are falsy.
\* A value passed on as it came.
OrEmptyIdentity(v) == v

OrEmpty(v) == IF v \in {Undefined, Null, ""} THEN "" ELSE v

\* ------------------------------------------------------------ input data
Ids == {"1", "2"}

\* Date strings callers store: the date-only form and the toISOString form
\* of the same instant, and a later day.
Dates == {"2024-05-01", "2024-05-01T00:00:00.000Z", "2024-05-02"}

\* new Date(s).getTime(), in days since the epoch (NaN is -1 here; no date
\* of Dates is invalid).
DateGetTime(s) ==
  CASE s = "2024-05-01" -> 19844
    [] s = "2024-05-01T00:00:00.000Z" -> 19844
    [] s = "2024-05-02" -> 19845
    [] OTHER -> -1

\* Rank of a date string in the byte order SQLite's BINARY collation uses.
DateTextRank(s) ==
  CASE s = "2024-05-01" -> 1
    [] s = "2024-05-01T00:00:00.000Z" -> 2
    [] s = "2024-05-02" -> 3
    [] OTHER -> 0

HikeFields ==
  {"id", "name", "location", "date", "parking", "length", "difficulty",
   "description", "weather", "rating", "companions"}

\* The ten fields update replaces.
UpdatableFields == HikeFields \ {"id"}

\* The hikes callers pass to addHike and updateHike: two complete records
\* that differ in every field but the id, the second on a later day or on
\* the same instant as the first in the other notation.  Ids are plain
\* labels to the code, so the later day goes with one id and the other
\* notation with the other.
Snowdon(id) ==
  [id |-> id, name |-> "Snowdon", location |-> "Wales", date |-> "2024-05-01",
   parking |-> "Yes", length |-> "8.5", difficulty |-> "Hard",
   description |-> "", weather |-> "", rating |-> "", companions |-> ""]

BenNevis(id, date) ==
  [id |-> id, name |-> "Ben Nevis", location |-> "Scotland", date |-> date,
   parking |-> "No", length |-> "17", difficulty |-> "Expert",
   description |-> "Steep", weather |-> "Rain", rating |-> "4",
   companions |-> "Sam"]

HikeInputs ==
  {Snowdon(id) : id \in Ids}
    \cup {BenNevis("1", "2024-05-02"), BenNevis("2", "2024-05-01T00:00:00.000Z")}

\* new Date().toISOString() at clock reading t.
ToISOString(t) ==
  CASE t = 1 -> "2024-06-01T09:00:00.001Z"
    [] t = 2 -> "2024-06-01T09:00:00.002Z"
    [] t = 3 -> "2024-06-01T09:00:00.003Z"
    [] OTHER -> "2024-06-01T09:00:00.004Z"

\* ------------------------------------------------------------ statements
\* SQL text as the sequence of its whitespace-separated words; a column or
\* placeholder list is one word.
CreateTableSQL == <<"CREATE", "TABLE", "IF", "NOT", "EXISTS", "hikes", "(columns)">>
InsertSQL == <<"INSERT", "INTO", "hikes", "(columns)", "VALUES", "(?x12)">>
SelectAllSQL == <<"SELECT", "*", "FROM", "hikes", "ORDER", "BY", "date", "DESC">>
SelectByIdSQL == <<"SELECT", "*", "FROM", "hikes", "WHERE", "id", "=", "?">>
UpdateSQL == <<"UPDATE", "hikes", "SET", "(?x10)", "WHERE", "id", "=", "?">>
DeleteByIdSQL == <<"DELETE", "FROM", "hikes", "WHERE", "id", "=", "?">>
\* Delete-all text with a statement terminator.
DeleteAllSQLTerminated == <<"DELETE", "FROM", "hikes;">>
DeleteAllSQL == <<"DELETE", "FROM", "hikes">>
DropTableSQL == <<"DROP", "TABLE", "IF", "EXISTS", "hikes">>
CountSQL == <<"SELECT", "COUNT(*)", "as", "count", "FROM", "hikes">>

ToUpperCase(w) ==
  CASE w = "hikes" -> "HIKES"
    [] w = "id" -> "ID"
    [] w = "date" -> "DATE"
    [] w = "as" -> "AS"
    [] w = "count" -> "COUNT"
    [] w = "(columns)" -> "(COLUMNS)"
    [] OTHER -> w

\* sql.trim().toUpperCase()
Normalize(sql) == [i \in DOMAIN sql |-> ToUpperCase(sql[i])]

StartsWith(s, prefix) ==
  /\ Len(s) >= Len(prefix)
  /\ SubSeq(s, 1, Len(prefix)) = prefix

\* params[i] with JavaScript's 0-based index; out of range reads undefined.
Param(params, i) == IF (i + 1) \in DOMAIN params THEN params[i + 1] ELSE Undefined

\* --------------------------------------------------- fallback store (mock)
\* The value under STORAGE_KEY: absent (getItem gives null) or the text
\* JSON.stringify wrote.  JSON keeps an array of flat string records as it
\* is, so the text is modelled by the array it encodes.
NoItem == [kind |-> "null", rows |-> <<>>]
JSONStringify(rows) == [kind |-> "json", rows |-> rows]
\* Texts the fallback store did not write: one that is not JSON, and the
\* JSON text 'null', which parses to a value that is no array.
Garbage == [kind |-> "garbage", rows |-> <<>>]
NullText == [kind |-> "text:null", rows |-> <<>>]
JSONParses(raw) == raw.kind \in {"json", "text:null"}
JSONParse(raw) == raw.rows

\* A service instance, the runtime it was constructed in and the storage it
\* can reach.
\*   db, isInitialized         fields of DatabaseService
\*   platform                  Platform.OS
\*   openDatabase, openDatabaseSync   what the SQLite module's entry point is
\*   hasLocalStorage, localStorage, memoryRows   the fallback store
\*   setItemThrows             window.localStorage.setItem throws (storage
\*                             full, or storage that cannot be written)
\*   tableExists, table        the native engine's database file
\*   readOnly                  the database file cannot be written
readAll(w) ==
  IF w.hasLocalStorage
    THEN IF w.localStorage.kind = "null" THEN <<>>
         ELSE IF JSONParses(w.localStorage) THEN JSONParse(w.localStorage)
         ELSE <<>>
    ELSE w.memoryRows

\* An exception of setItem is caught and logged: nothing is written.
writeAll(w, rows) ==
  IF w.hasLocalStorage
    THEN IF w.setItemThrows THEN w
         ELSE [w EXCEPT !.localStorage = JSONStringify(rows)]
    ELSE [w EXCEPT !.memoryRows = rows]

\* A comparator that sorts oldest first.
CompareDatesAscending(a, b) == DateGetTime(a.date) - DateGetTime(b.date)

\* The comparator of the select-all sort.
CompareDates(a, b) == DateGetTime(b.date) - DateGetTime(a.date)

\* Array.prototype.sort is stable: r goes behind every element that does
\* not compare greater than it.
InsertSorted(sorted, r) ==
  LET k == Cardinality({i \in DOMAIN sorted : CompareDates(sorted[i], r) <= 0})
  IN SubSeq(sorted, 1, k) \o <<r>> \o SubSeq(sorted, k + 1, Len(sorted))

RECURSIVE SortByDateDesc(_)
SortByDateDesc(rows) ==
  IF rows = <<>> THEN <<>>
  ELSE InsertSorted(SortByDateDesc(SubSeq(rows, 1, Len(rows) - 1)), rows[Len(rows)])

InsertedRow(params) ==
  [id |-> Param(params, 0), name |-> Param(params, 1),
   location |-> Param(params, 2), date |-> Param(params, 3),
   parking |-> Param(params, 4), length |-> Param(params, 5),
   difficulty |-> Param(params, 6), description |-> Param(params, 7),
   weather |-> Param(params, 8), rating |-> Param(params, 9),
   companions |-> Param(params, 10), createdAt |-> Param(params, 11)]

\* An update that keeps the old value where the new one is empty.
UpdatedRowPatch(r, params) ==
  LET new(i, old) == IF Param(params, i) = "" THEN old ELSE Param(params, i) IN
  [r EXCEPT !.name = new(0, @), !.location = new(1, @),
            !.date = new(2, @), !.parking = new(3, @),
            !.length = new(4, @), !.difficulty = new(5, @),
            !.description = new(6, @), !.weather = new(7, @),
            !.rating = new(8, @), !.companions = new(9, @),
            !.createdAt = Param(params, 10)]

\* {...r, name: params[0], ..., createdAt: params[10]}
UpdatedRow(r, params) ==
  [r EXCEPT !.name = Param(params, 0), !.location = Param(params, 1),
            !.date = Param(params, 2), !.parking = Param(params, 3),
            !.length = Param(params, 4), !.difficulty = Param(params, 5),
            !.description = Param(params, 6), !.weather = Param(params, 7),
            !.rating = Param(params, 8), !.companions = Param(params, 9),
            !.createdAt = Param(params, 10)]

\* A delete-by-id that takes the delete-all path.
RowsClearedOnDelete(rows, id) == <<>>

\* A delete-by-id whose filter test is inverted.
RowsOnlyWithId(rows, id) ==
  LET keep(r) == r.id = id IN SelectSeq(rows, keep)

\* A delete that removes the first record with the id only.
RowsWithoutFirstId(rows, id) ==
  LET hits == {i \in DOMAIN rows : rows[i].id = id} IN
  IF hits = {} THEN rows
  ELSE LET first == CHOOSE i \in hits : \A k \in hits : i <= k IN
       SubSeq(rows, 1, first - 1) \o SubSeq(rows, first + 1, Len(rows))

\* rows.filter(r => r.id !== id)
RowsWithoutId(rows, id) ==
  LET keep(r) == r.id # id IN SelectSeq(rows, keep)

\* rows.filter(r => r.id === id)
RowsWithId(rows, id) ==
  LET keep(r) == r.id = id IN SelectSeq(rows, keep)

\* An update without the id test.
UpdatedRowsEveryRow(rows, params) ==
  [i \in DOMAIN rows |-> UpdatedRow(rows[i], params)]

\* An update that stores the record when no record has the id.
UpdatedRowsUpsert(rows, params) ==
  LET id == Param(params, Len(params) - 1) IN
  IF \E i \in DOMAIN rows : rows[i].id = id
    THEN [i \in DOMAIN rows |->
            IF rows[i].id = id THEN UpdatedRow(rows[i], params) ELSE rows[i]]
    ELSE Append(rows, UpdatedRow(InsertedRow(<<id>>), params))

\* rows.map(r => r.id === id ? {...r, ...} : r), id the last parameter
UpdatedRows(rows, params) ==
  LET id == Param(params, Len(params) - 1) IN
  [i \in DOMAIN rows |->
     IF rows[i].id = id THEN UpdatedRow(rows[i], params) ELSE rows[i]]

\* What a statement gives back: the store after it, whether the success or
\* the error callback ran, and result.rows._array.  threw: an exception left
\* executeSql instead of a callback being run.
\* issued: the statements handed to db.transaction, filled in by the executor.
Succeeded(w, array) ==
  [w |-> w, success |-> TRUE, error |-> "", data |-> array, threw |-> FALSE,
   issued |-> <<>>]
Failed(w, message) ==
  [w |-> w, success |-> FALSE, error |-> message, data |-> <<>>, threw |-> FALSE,
   issued |-> <<>>]
Thrown(w, message) ==
  [w |-> w, success |-> FALSE, error |-> message, data |-> <<>>, threw |-> TRUE,
   issued |-> <<>>]

\* A readAll() that also gives null for text that does not parse.
ReadsNullOrUnparsed(w) == w.hasLocalStorage /\ w.localStorage \in {NullText, Garbage}

\* readAll() gave null: the durable key holds the text 'null'.
ReadsNull(w) == w.hasLocalStorage /\ w.localStorage = NullText

\* The TypeError of rows.push, rows.slice, rows.filter, rows.map and
\* rows.length on null.
TypeError == "Cannot read properties of null"

\* An insert that takes the place of the records with the id.
RowsPushedReplacing(rows, row) == Append(RowsWithoutId(rows, row.id), row)

\* rows.push({...})
RowsPushed(rows, row) == Append(rows, row)

\* A write whose exception is handed on to the statement.
WrittenOrThrown(w, rows) ==
  IF w.hasLocalStorage /\ w.setItemThrows
    THEN Thrown(w, "QuotaExceededError")
    ELSE Succeeded(writeAll(w, rows), <<>>)

\* writeAll(rows); if (success) success(null, { rows: createResultRows([]) })
Written(w, rows) == Succeeded(writeAll(w, rows), <<>>)

\* A select-all that sorts the list it read.
SelectedAllInPlace(w) ==
  LET sorted == SortByDateDesc(readAll(w)) IN
  Succeeded(IF w.hasLocalStorage THEN w ELSE [w EXCEPT !.memoryRows = sorted], sorted)

\* rows = rows.slice().sort(...); success(null, { rows: createResultRows(rows) })
SelectedAll(w) == Succeeded(w, SortByDateDesc(readAll(w)))

\* The try block of tx.executeSql of the fallback store: the first matching
\* branch runs.
MockStatement(w, sql, params) ==
  LET normalized == Normalize(sql) IN
  IF StartsWith(normalized, <<"INSERT", "INTO", "HIKES">>)
    THEN IF ReadsNull(w) THEN Thrown(w, TypeError)
         ELSE Written(w, RowsPushed(readAll(w), InsertedRow(params)))
  ELSE IF StartsWith(normalized, <<"SELECT", "*", "FROM", "HIKES">>)
    THEN IF ReadsNull(w) THEN Thrown(w, TypeError)
         ELSE SelectedAll(w)
  ELSE IF StartsWith(normalized, <<"DELETE", "FROM", "HIKES", "WHERE", "ID">>)
    THEN IF ReadsNull(w) THEN Thrown(w, TypeError)
         ELSE Written(w, RowsWithoutId(readAll(w), Param(params, 0)))
  ELSE IF normalized = <<"DELETE", "FROM", "HIKES">>
    THEN Written(w, <<>>)
  ELSE IF StartsWith(normalized, <<"UPDATE", "HIKES">>)
    THEN IF ReadsNull(w) THEN Thrown(w, TypeError)
         ELSE Written(w, UpdatedRows(readAll(w), params))
  ELSE IF StartsWith(normalized, <<"SELECT", "COUNT(*)">>)
    THEN IF ReadsNull(w) THEN Thrown(w, TypeError)
         ELSE Succeeded(w, <<[count |-> Len(readAll(w))]>>)
  ELSE IF StartsWith(normalized, <<"SELECT", "*", "FROM", "HIKES", "WHERE", "ID">>)
    THEN IF ReadsNull(w) THEN Thrown(w, TypeError)
         ELSE Succeeded(w, RowsWithId(readAll(w), Param(params, 0)))
  ELSE IF StartsWith(normalized, <<"DROP", "TABLE">>)
    THEN Written(w, <<>>)
  ELSE IF StartsWith(normalized, <<"CREATE", "TABLE">>)
    THEN Succeeded(w, <<>>)
  ELSE Succeeded(w, <<>>)

\* A tx.executeSql without the catch.
MockExecuteSqlNoCatch(w, sql, params) == MockStatement(w, sql, params)

\* tx.executeSql of the fallback store: an exception of the try block is
\* caught and handed to the error callback.
MockExecuteSql(w, sql, params) ==
  LET outcome == MockStatement(w, sql, params) IN
  IF outcome.threw THEN Failed(w, outcome.error) ELSE outcome

\* ------------------------------------------------------------ native engine
\* The table `hikes` of CREATE TABLE: id TEXT PRIMARY KEY NOT NULL and the
\* NOT NULL columns; rows are kept in rowid (insertion) order.
NotNullColumns ==
  {"id", "name", "location", "date", "parking", "length", "difficulty", "createdAt"}

\* JavaScript undefined and null are bound as SQL NULL.
IsSqlNull(v) == v \in {Undefined, Null}

\* ORDER BY date DESC on a TEXT column compares the strings.
InsertByText(sorted, r) ==
  LET k == Cardinality({i \in DOMAIN sorted :
                          DateTextRank(sorted[i].date) >= DateTextRank(r.date)})
  IN SubSeq(sorted, 1, k) \o <<r>> \o SubSeq(sorted, k + 1, Len(sorted))

RECURSIVE OrderByDateDesc(_)
OrderByDateDesc(rows) ==
  IF rows = <<>> THEN <<>>
  ELSE InsertByText(OrderByDateDesc(SubSeq(rows, 1, Len(rows) - 1)), rows[Len(rows)])

\* SET name = ?, ..., companions = ? : ten placeholders, createdAt not named.
SqlUpdatedRow(r, params) ==
  [r EXCEPT !.name = Param(params, 0), !.location = Param(params, 1),
            !.date = Param(params, 2), !.parking = Param(params, 3),
            !.length = Param(params, 4), !.difficulty = Param(params, 5),
            !.description = Param(params, 6), !.weather = Param(params, 7),
            !.rating = Param(params, 8), !.companions = Param(params, 9)]

\* The engine's error for a statement that has to write a file it cannot
\* write.
ReadOnlyError == "attempt to write a readonly database"

\* tx.executeSql of the native engine, for the statements the service issues.
\* CREATE TABLE IF NOT EXISTS and DROP TABLE IF EXISTS write only when they
\* have something to do.
NativeExecuteSql(w, sql, params) ==
  IF sql = CreateTableSQL
    THEN IF w.tableExists THEN Succeeded(w, <<>>)
         ELSE IF w.readOnly THEN Failed(w, ReadOnlyError)
         ELSE Succeeded([w EXCEPT !.tableExists = TRUE], <<>>)
  ELSE IF sql = DropTableSQL
    THEN IF ~w.tableExists THEN Succeeded(w, <<>>)
         ELSE IF w.readOnly THEN Failed(w, ReadOnlyError)
         ELSE Succeeded([w EXCEPT !.tableExists = FALSE, !.table = <<>>], <<>>)
  ELSE IF ~w.tableExists
    THEN Failed(w, "no such table: hikes")
  ELSE IF w.readOnly /\ sql \in {InsertSQL, UpdateSQL, DeleteByIdSQL, DeleteAllSQL}
    THEN Failed(w, ReadOnlyError)
  ELSE IF sql = InsertSQL
    THEN LET row == InsertedRow(params) IN
         IF \E c \in NotNullColumns : IsSqlNull(row[c])
           THEN Failed(w, "NOT NULL constraint failed")
         ELSE IF \E i \in DOMAIN w.table : w.table[i].id = row.id
           THEN Failed(w, "UNIQUE constraint failed: hikes.id")
         ELSE Succeeded([w EXCEPT !.table = Append(w.table, row)], <<>>)
  ELSE IF sql = SelectAllSQL
    THEN Succeeded(w, OrderByDateDesc(w.table))
  ELSE IF sql = SelectByIdSQL
    THEN LET id == Param(params, 0)
             match(r) == r.id = id
         IN Succeeded(w, SelectSeq(w.table, match))
  ELSE IF sql = UpdateSQL
    THEN LET id == Param(params, 10)
             hit == \E i \in DOMAIN w.table : w.table[i].id = id
         IN IF hit /\ \E k \in 0..5 : IsSqlNull(Param(params, k))
              THEN Failed(w, "NOT NULL constraint failed")
            ELSE Succeeded(
                   [w EXCEPT !.table = [i \in DOMAIN w.table |->
                       IF w.table[i].id = id THEN SqlUpdatedRow(w.table[i], params)
                       ELSE w.table[i]]],
                   <<>>)
  ELSE IF sql = DeleteByIdSQL
    THEN LET id == Param(params, 0)
             keep(r) == r.id # id
         IN Succeeded([w EXCEPT !.table = SelectSeq(w.table, keep)], <<>>)
  ELSE IF sql = DeleteAllSQL
    THEN Succeeded([w EXCEPT !.table = <<>>], <<>>)
  ELSE IF sql = CountSQL
    THEN Succeeded(w, <<[count |-> Len(w.table)]>>)
  ELSE Failed(w, "syntax error")

\* ---------------------------------------------------------- DatabaseService
\* typeof this.db.transaction === 'function'
HasTransaction(db) == db \in {"mock", "sqlite"}

\* createMockDatabase(): a new fallback store object with an empty in-process
\* list; the durable key is shared with every other fallback store.
BindMock(w) == [w EXCEPT !.db = "mock", !.memoryRows = <<>>]

\* What an entry point of the SQLite module is: not a function, a function
\* that throws, or a function that returns a handle, with or without a
\* transaction function.
Outcomes == {"missing", "throws", "sqlite", "sqliteNoTx"}

\* The field initialisers: db = null, isInitialized = false.
Unbuilt(platform, open, openSync, ls, text) ==
  [db |-> Null, isInitialized |-> FALSE,
   platform |-> platform, openDatabase |-> open, openDatabaseSync |-> openSync,
   hasLocalStorage |-> ls, localStorage |-> text, setItemThrows |-> FALSE,
   memoryRows |-> <<>>, tableExists |-> FALSE, table |-> <<>>, readOnly |-> FALSE]

\* An initializeDatabase() that binds nothing when no handle was opened.
InitializeDatabaseNoFallback(w) ==
  LET opened(outcome) == IF outcome \in {"sqlite", "sqliteNoTx"} THEN outcome ELSE Null
      dbInstance == IF w.openDatabase # "missing" THEN opened(w.openDatabase)
                    ELSE IF w.openDatabaseSync # "missing" THEN opened(w.openDatabaseSync)
                    ELSE Null
      bound == IF w.platform = "web" THEN BindMock(w)
               ELSE IF dbInstance # Null THEN [w EXCEPT !.db = dbInstance]
               ELSE w
  IN [bound EXCEPT !.isInitialized = TRUE]

\* initializeDatabase(): an open attempt that throws leaves dbInstance null.
InitializeDatabase(w) ==
  LET opened(outcome) == IF outcome \in {"sqlite", "sqliteNoTx"} THEN outcome ELSE Null
      dbInstance == IF w.openDatabase # "missing" THEN opened(w.openDatabase)
                    ELSE IF w.openDatabaseSync # "missing" THEN opened(w.openDatabaseSync)
                    ELSE Null
      bound == IF w.platform = "web" THEN BindMock(w)
               ELSE IF dbInstance # Null THEN [w EXCEPT !.db = dbInstance]
               ELSE BindMock(w)
  IN [bound EXCEPT !.isInitialized = TRUE]

\* new DatabaseService()
Constructor(w) == InitializeDatabase(w)

\* An executor without the guard on the transaction function.
ExecuteTransactionNoRebind(w, sql, params) ==
  IF ~w.isInitialized \/ w.db = Null
    THEN Failed(w, "Database not initialized")
  ELSE IF ~HasTransaction(w.db)
    THEN Failed(w, "Database transaction function is not available")
  ELSE IF w.db = "mock"
    THEN [MockExecuteSql(w, sql, params) EXCEPT !.issued = <<sql>>]
  ELSE [NativeExecuteSql(w, sql, params) EXCEPT !.issued = <<sql>>]

ExecuteTransaction(w, sql, params) ==
  IF ~w.isInitialized \/ w.db = Null
    THEN Failed(w, "Database not initialized")
  ELSE LET bound == IF HasTransaction(w.db) THEN w ELSE BindMock(w) IN
       IF ~HasTransaction(bound.db)
         THEN Failed(bound, "Database transaction function is not available")
       ELSE IF bound.db = "mock"
         THEN [MockExecuteSql(bound, sql, params) EXCEPT !.issued = <<sql>>]
       ELSE [NativeExecuteSql(bound, sql, params) EXCEPT !.issued = <<sql>>]

\* An initialize that drops the table before creating it.
SvcInitDatabaseDropFirst(w) ==
  ExecuteTransaction(ExecuteTransaction(w, DropTableSQL, <<>>).w, CreateTableSQL, <<>>)

SvcInitDatabase(w) == ExecuteTransaction(w, CreateTableSQL, <<>>)

\* hikeWithDefaults of the exported addHike and of DatabaseService.addHike.
HikeWithDefaults(hike) == [f \in HikeFields |-> OrEmpty(hike[f])]

AddHikeParams(hike, createdAt) ==
  LET h == HikeWithDefaults(hike) IN
  <<h.id, h.name, h.location, h.date, h.parking, h.length, h.difficulty,
    OrEmpty(h.description), OrEmpty(h.weather), OrEmpty(h.rating),
    OrEmpty(h.companions), createdAt>>

SvcAddHike(w, hike, createdAt) ==
  ExecuteTransaction(w, InsertSQL, AddHikeParams(hike, createdAt))

SvcGetAllHikes(w) == ExecuteTransaction(w, SelectAllSQL, <<>>)

\* data: hikes.length > 0 ? hikes[0] : null.  The value is kept as a
\* sequence: <<hike>> for a record, <<>> for null.
SvcGetHikeById(w, id) ==
  LET result == ExecuteTransaction(w, SelectByIdSQL, <<id>>) IN
  IF result.success
    THEN [result EXCEPT !.data = IF Len(result.data) > 0
                                   THEN <<result.data[1]>> ELSE <<>>]
    ELSE result

UpdateHikeParams(hike) ==
  <<hike.name, hike.location, hike.date, hike.parking, hike.length,
    hike.difficulty, hike.description, hike.weather, hike.rating,
    hike.companions, hike.id>>

SvcUpdateHike(w, hike) == ExecuteTransaction(w, UpdateSQL, UpdateHikeParams(hike))

SvcDeleteHike(w, id) == ExecuteTransaction(w, DeleteByIdSQL, <<id>>)

SvcDeleteAllHikes(w) == ExecuteTransaction(w, DeleteAllSQL, <<>>)

\* A reset that only re-creates the table.
SvcResetDatabaseNoDrop(w) == SvcInitDatabase(w)

\* A reset that creates the table whatever the drop gave.
SvcResetDatabaseNoShortCircuit(w) ==
  LET dropResult == ExecuteTransaction(w, DropTableSQL, <<>>)
      initResult == SvcInitDatabase(dropResult.w)
  IN [initResult EXCEPT !.issued = dropResult.issued \o initResult.issued]

SvcResetDatabase(w) ==
  LET dropResult == ExecuteTransaction(w, DropTableSQL, <<>>) IN
  IF ~dropResult.success THEN dropResult
  ELSE LET initResult == SvcInitDatabase(dropResult.w) IN
       [initResult EXCEPT !.issued = dropResult.issued \o initResult.issued]

\* data: { hikeCount: rows._array[0]?.count || 0 }
SvcGetDatabaseStats(w) ==
  LET result == ExecuteTransaction(w, CountSQL, <<>>) IN
  IF result.success
    THEN [result EXCEPT !.data =
            <<[hikeCount |-> IF Len(result.data) > 0 THEN result.data[1].count ELSE 0]>>]
    ELSE result

\* ------------------------------------------------------ exported functions
\* What the caller of an exported function observes: the call, whether the
\* promise resolved or rejected, the rejection message and the value.
\* A wrapper that resolves whatever the Result says.
SettledSwallowing(op, id, hike, result) ==
  [op |-> op, id |-> id, hike |-> hike,
   executor |-> IF result.threw THEN "rejected"
                ELSE IF result.success THEN "success" ELSE "failure",
   resolved |-> TRUE,
   error |-> "",
   value |-> result.data,
   issued |-> result.issued]

\* executor: what the promise of the last executeTransaction did, resolve
\* with a success or a failure Result, or reject.  issued: the statements the
\* call handed to the backend.
Settled(op, id, hike, result) ==
  [op |-> op, id |-> id, hike |-> hike,
   executor |-> IF result.threw THEN "rejected"
                ELSE IF result.success THEN "success" ELSE "failure",
   resolved |-> result.success,
   error |-> IF result.success THEN "" ELSE result.error,
   value |-> IF result.success THEN result.data ELSE <<>>,
   issued |-> result.issued]

\* -------------------------------------------------------------------- state
VARIABLES
  service,        \* the DatabaseService bound to the fallback store
  now,            \* the clock new Date() reads
  ret,            \* outcome of the last call on service
  nativeService,  \* a DatabaseService bound to the native engine
  nativeRet,      \* outcome of the last call on nativeService
  inFlight        \* a call that has begun and has not finished

vars == <<service, now, ret, nativeService, nativeRet, inFlight>>

NothingInFlight == [who |-> "none"]

NoCall == [op |-> "none", id |-> "", hike |-> <<>>, executor |-> "none",
           resolved |-> TRUE, error |-> "", value |-> <<>>, issued |-> <<>>]

\* After the constructor on the web platform (or with SQLite unavailable):
\* the fallback store is bound, over the durable key or, where there is no
\* window.localStorage, over the in-process list.
\* nativeService: constructed on a device whose SQLite module opened a
\* handle, over a database file that has the table.
Init ==
  /\ \E ls \in BOOLEAN :
       service = Constructor(Unbuilt("web", "missing", "missing", ls, NoItem))
  /\ now = 1
  /\ ret = NoCall
  /\ nativeService =
       [Constructor(Unbuilt("ios", "sqlite", "missing", FALSE, NoItem))
          EXCEPT !.tableExists = TRUE]
  /\ nativeRet = NoCall
  /\ inFlight = NothingInFlight

\* The list the fallback store holds.
StoredRows == readAll(service)

\* ------------------------------------------- calls on the fallback service
CallInitDatabase ==
  LET result == SvcInitDatabase(service) IN
  /\ service' = result.w
  /\ ret' = Settled("initDatabase", "", <<>>, result)

CallAddHike(hike) ==
  LET result == SvcAddHike(service, HikeWithDefaults(hike), ToISOString(now)) IN
  /\ Len(StoredRows) < MaxRows
  /\ service' = result.w
  /\ ret' = Settled("addHike", OrEmpty(hike.id), <<hike>>, result)

CallGetAllHikes ==
  LET result == SvcGetAllHikes(service) IN
  /\ service' = result.w
  /\ ret' = Settled("getAllHikes", "", <<>>, result)

CallGetHikeById(id) ==
  LET result == SvcGetHikeById(service, id) IN
  /\ service' = result.w
  /\ ret' = Settled("getHikeById", id, <<>>, result)

CallUpdateHike(hike) ==
  LET result == SvcUpdateHike(service, hike) IN
  /\ service' = result.w
  /\ ret' = Settled("updateHike", hike.id, <<hike>>, result)

CallDeleteHike(id) ==
  LET result == SvcDeleteHike(service, id) IN
  /\ service' = result.w
  /\ ret' = Settled("deleteHike", id, <<>>, result)

CallDeleteAllHikes ==
  LET result == SvcDeleteAllHikes(service) IN
  /\ service' = result.w
  /\ ret' = Settled("deleteAllHikes", "", <<>>, result)

CallResetDatabase ==
  LET result == SvcResetDatabase(service) IN
  /\ service' = result.w
  /\ ret' = Settled("resetDatabase", "", <<>>, result)

CallGetDatabaseStats ==
  LET result == SvcGetDatabaseStats(service) IN
  /\ service' = result.w
  /\ ret' = Settled("getDatabaseStats", "", <<>>, result)

\* --------------------------------------------- the same calls on the native
NativeInitDatabase ==
  LET result == SvcInitDatabase(nativeService) IN
  /\ nativeService' = result.w
  /\ nativeRet' = Settled("initDatabase", "", <<>>, result)

NativeAddHike(hike) ==
  LET result == SvcAddHike(nativeService, HikeWithDefaults(hike), ToISOString(now)) IN
  /\ nativeService' = result.w
  /\ nativeRet' = Settled("addHike", OrEmpty(hike.id), <<hike>>, result)

NativeGetAllHikes ==
  LET result == SvcGetAllHikes(nativeService) IN
  /\ nativeService' = result.w
  /\ nativeRet' = Settled("getAllHikes", "", <<>>, result)

NativeGetHikeById(id) ==
  LET result == SvcGetHikeById(nativeService, id) IN
  /\ nativeService' = result.w
  /\ nativeRet' = Settled("getHikeById", id, <<>>, result)

NativeUpdateHike(hike) ==
  LET result == SvcUpdateHike(nativeService, hike) IN
  /\ nativeService' = result.w
  /\ nativeRet' = Settled("updateHike", hike.id, <<hike>>, result)

NativeDeleteHike(id) ==
  LET result == SvcDeleteHike(nativeService, id) IN
  /\ nativeService' = result.w
  /\ nativeRet' = Settled("deleteHike", id, <<>>, result)

NativeDeleteAllHikes ==
  LET result == SvcDeleteAllHikes(nativeService) IN
  /\ nativeService' = result.w
  /\ nativeRet' = Settled("deleteAllHikes", "", <<>>, result)

NativeResetDatabase ==
  LET result == SvcResetDatabase(nativeService) IN
  /\ nativeService' = result.w
  /\ nativeRet' = Settled("resetDatabase", "", <<>>, result)

NativeGetDatabaseStats ==
  LET result == SvcGetDatabaseStats(nativeService) IN
  /\ nativeService' = result.w
  /\ nativeRet' = Settled("getDatabaseStats", "", <<>>, result)

\* ------------------------------------------------------------------ actions
\* Time passes between calls.
Tick ==
  /\ now < MaxClock
  /\ now' = now + 1
  /\ UNCHANGED <<service, ret, nativeService, nativeRet, inFlight>>

InitDatabase == CallInitDatabase /\ UNCHANGED <<now, nativeService, nativeRet, inFlight>>

AddHike(hike) == CallAddHike(hike) /\ UNCHANGED <<now, nativeService, nativeRet, inFlight>>

GetAllHikes == CallGetAllHikes /\ UNCHANGED <<now, nativeService, nativeRet, inFlight>>

GetHikeById(id) == CallGetHikeById(id) /\ UNCHANGED <<now, nativeService, nativeRet, inFlight>>

UpdateHike(hike) == CallUpdateHike(hike) /\ UNCHANGED <<now, nativeService, nativeRet, inFlight>>

DeleteHike(id) == CallDeleteHike(id) /\ UNCHANGED <<now, nativeService, nativeRet, inFlight>>

DeleteAllHikes == CallDeleteAllHikes /\ UNCHANGED <<now, nativeService, nativeRet, inFlight>>

ResetDatabase == CallResetDatabase /\ UNCHANGED <<now, nativeService, nativeRet, inFlight>>

GetDatabaseStats == CallGetDatabaseStats /\ UNCHANGED <<now, nativeService, nativeRet, inFlight>>

Next ==
  \/ Tick
  \/ InitDatabase
  \/ \E hike \in HikeInputs : AddHike(hike)
  \/ GetAllHikes
  \/ \E id \in Ids : GetHikeById(id)
  \/ \E hike \in HikeInputs : UpdateHike(hike)
  \/ \E id \in Ids : DeleteHike(id)
  \/ DeleteAllHikes
  \/ ResetDatabase
  \/ GetDatabaseStats

Spec == Init /\ [][Next]_vars

\* Both services receive every call, with the same input and clock reading.
BothInitDatabase == CallInitDatabase /\ NativeInitDatabase /\ UNCHANGED <<now, inFlight>>

BothAddHike(hike) == CallAddHike(hike) /\ NativeAddHike(hike) /\ UNCHANGED <<now, inFlight>>

BothGetAllHikes == CallGetAllHikes /\ NativeGetAllHikes /\ UNCHANGED <<now, inFlight>>

BothGetHikeById(id) == CallGetHikeById(id) /\ NativeGetHikeById(id) /\ UNCHANGED <<now, inFlight>>

BothUpdateHike(hike) == CallUpdateHike(hike) /\ NativeUpdateHike(hike) /\ UNCHANGED <<now, inFlight>>

BothDeleteHike(id) == CallDeleteHike(id) /\ NativeDeleteHike(id) /\ UNCHANGED <<now, inFlight>>

BothDeleteAllHikes == CallDeleteAllHikes /\ NativeDeleteAllHikes /\ UNCHANGED <<now, inFlight>>

BothResetDatabase == CallResetDatabase /\ NativeResetDatabase /\ UNCHANGED <<now, inFlight>>

BothGetDatabaseStats == CallGetDatabaseStats /\ NativeGetDatabaseStats /\ UNCHANGED <<now, inFlight>>

NextEq ==
  \/ Tick
  \/ \E id \in Ids : BothGetHikeById(id)
  \/ \E hike \in HikeInputs : BothAddHike(hike)
  \/ BothGetAllHikes
  \/ BothInitDatabase
  \/ \E hike \in HikeInputs : BothUpdateHike(hike)
  \/ \E id \in Ids : BothDeleteHike(id)
  \/ BothDeleteAllHikes
  \/ BothResetDatabase
  \/ BothGetDatabaseStats

SpecEq == Init /\ [][NextEq]_vars

\* ------------------------------------------------------------- properties
\* Stored records with the given id.
StoredWithId(id) == {i \in DOMAIN StoredRows : StoredRows[i].id = id}

\* ----------------------------------------------- create with fields left out
\* What a caller can pass to addHike despite its type: the optional
\* fields left out, the optional fields null, and an object with no fields.
OmittedOptional ==
  [Snowdon("1") EXCEPT !.description = Undefined, !.weather = Undefined,
                       !.rating = Undefined, !.companions = Undefined]

NullOptional ==
  [BenNevis("2", "2024-05-02") EXCEPT !.description = Null, !.weather = Null,
                                      !.rating = Null, !.companions = Null]

NoFields == [f \in HikeFields |-> Undefined]

PartialHikeInputs == {OmittedOptional, NullOptional, NoFields, Snowdon("2")}

\* The writing operations, create taking the partial inputs.  The reads are
\* left out: their sort compares new Date('') of a defaulted date.
NextDefaults ==
  \/ Tick
  \/ InitDatabase
  \/ \E hike \in PartialHikeInputs : AddHike(hike)
  \/ \E hike \in HikeInputs : UpdateHike(hike)
  \/ \E id \in Ids : DeleteHike(id)
  \/ DeleteAllHikes
  \/ ResetDatabase
  \/ GetDatabaseStats

SpecDefaults == Init /\ [][NextDefaults]_vars

\* ------------------------------------------- a caller that writes to results
\* Where each element of the sorted list came from: rows.slice().sort(...)
\* makes a new array of the same objects.
SortedIndexes(rows) ==
  LET tagged == [i \in DOMAIN rows |-> [date |-> rows[i].date, index |-> i]]
      sorted == SortByDateDesc(tagged)
  IN [k \in DOMAIN sorted |-> sorted[k].index]

\* readAll() hands out the in-process list itself.
SharesObjects(w) == w.db = "mock" /\ ~w.hasLocalStorage

\* The caller of getAllHikes or getHikeById assigns to a field of a record
\* it was given: hikes[k].name = 'Renamed'.  Without window.localStorage the
\* record is the object the store holds.
CallerMutatesRecord(k) ==
  /\ ret.op \in {"getAllHikes", "getHikeById"}
  /\ ret.resolved
  /\ k \in DOMAIN ret.value
  /\ ret' = [ret EXCEPT !.op = "mutateReturned", !.value[k].name = "Renamed"]
  /\ service' = IF SharesObjects(service)
                  THEN [service EXCEPT
                          !.memoryRows[SortedIndexes(service.memoryRows)[k]].name =
                            "Renamed"]
                  ELSE service
  /\ UNCHANGED <<now, nativeService, nativeRet, inFlight>>

\* The caller of getAllHikes removes the last element of the array it was
\* given: hikes.pop().  The array is the copy slice() made.
CallerMutatesArray ==
  /\ ret.op = "getAllHikes"
  /\ ret.resolved
  /\ ret.value # <<>>
  /\ ret' = [ret EXCEPT !.op = "mutateReturned",
                        !.value = SubSeq(ret.value, 1, Len(ret.value) - 1)]
  /\ UNCHANGED <<service, now, nativeService, nativeRet, inFlight>>

NextAlias ==
  \/ Next
  \/ \E k \in 1..MaxRows : CallerMutatesRecord(k)
  \/ CallerMutatesArray

SpecAlias == Init /\ [][NextAlias]_vars

\* ------------------------------------------------------------------ startup
\* Every runtime the module can be loaded in: the web platform (a browser,
\* with window.localStorage, where the SQLite module is not probed), or a
\* device (no window.localStorage) with any SQLite module, over a database
\* file that does not hold the table yet.
InitStartup ==
  /\ \/ service = Constructor(Unbuilt("web", "missing", "missing", TRUE, NoItem))
     \/ \E open \in Outcomes, openSync \in Outcomes :
          service = Constructor(Unbuilt("ios", open, openSync, FALSE, NoItem))
  /\ now = 1
  /\ ret = NoCall
  /\ nativeService =
       [Constructor(Unbuilt("ios", "sqlite", "missing", FALSE, NoItem))
          EXCEPT !.tableExists = TRUE]
  /\ nativeRet = NoCall
  /\ inFlight = NothingInFlight

StartupIds == {"1"}
StartupHikes == {Snowdon("1")}

\* The calls on the service just constructed.
NextStartup ==
  \/ Tick
  \/ InitDatabase
  \/ \E hike \in StartupHikes : AddHike(hike)
  \/ GetAllHikes
  \/ \E id \in StartupIds : GetHikeById(id)
  \/ \E hike \in StartupHikes : UpdateHike(hike)
  \/ \E id \in StartupIds : DeleteHike(id)
  \/ DeleteAllHikes
  \/ ResetDatabase
  \/ GetDatabaseStats

SpecStartup == InitStartup /\ [][NextStartup]_vars

\* -------------------------------------------- a durable key that is refused
\* The web platform with window.localStorage.
InitQuota ==
  /\ service = Constructor(Unbuilt("web", "missing", "missing", TRUE, NoItem))
  /\ now = 1
  /\ ret = NoCall
  /\ nativeService =
       [Constructor(Unbuilt("ios", "sqlite", "missing", FALSE, NoItem))
          EXCEPT !.tableExists = TRUE]
  /\ nativeRet = NoCall
  /\ inFlight = NothingInFlight

\* The storage starts to refuse writes: setItem throws from now on.
SetItemStartsThrowing ==
  /\ ~service.setItemThrows
  /\ service' = [service EXCEPT !.setItemThrows = TRUE]
  /\ UNCHANGED <<now, ret, nativeService, nativeRet, inFlight>>

\* The storage accepts writes again.
SetItemStopsThrowing ==
  /\ service.setItemThrows
  /\ service' = [service EXCEPT !.setItemThrows = FALSE]
  /\ UNCHANGED <<now, ret, nativeService, nativeRet, inFlight>>

NextQuota ==
  \/ Next
  \/ SetItemStartsThrowing
  \/ SetItemStopsThrowing

SpecQuota == InitQuota /\ [][NextQuota]_vars

\* ------------------------------------------------ a store with one id twice
\* The records create stores at the first clock reading for the hikes with
\* the id.
CreatedWithId(id) ==
  {InsertedRow(AddHikeParams(hike, ToISOString(1))) : hike \in {h \in HikeInputs : h.id = id}}

\* The store after create was called, twice or more, with one id: every
\* record in it has that id.
InitDuplicates ==
  /\ \E ls \in BOOLEAN, id \in Ids, n \in 2..MaxRows :
       \E rows \in [1..n -> CreatedWithId(id)] :
         service = writeAll(Constructor(Unbuilt("web", "missing", "missing", ls, NoItem)),
                            rows)
  /\ now = 1
  /\ ret = NoCall
  /\ nativeService =
       [Constructor(Unbuilt("ios", "sqlite", "missing", FALSE, NoItem))
          EXCEPT !.tableExists = TRUE]
  /\ nativeRet = NoCall
  /\ inFlight = NothingInFlight

\* The calls that neither add a record nor empty the store.
NextDuplicates ==
  \/ Tick
  \/ InitDatabase
  \/ GetAllHikes
  \/ \E id \in Ids : GetHikeById(id)
  \/ \E hike \in HikeInputs : UpdateHike(hike)
  \/ \E id \in Ids : DeleteHike(id)
  \/ GetDatabaseStats

SpecDuplicates == InitDuplicates /\ [][NextDuplicates]_vars

\* ------------------------------------------------- a reset between its steps
\* resetDatabase awaits the drop before it calls initDatabase: calls made
\* after resetDatabase() was called and before its promise settles run
\* between the two statements.
ResetBegins ==
  LET dropResult == ExecuteTransaction(service, DropTableSQL, <<>>) IN
  /\ inFlight.who = "none"
  /\ service' = dropResult.w
  /\ IF dropResult.success
       THEN /\ inFlight' = [who |-> "reset", issued |-> dropResult.issued]
            /\ ret' = ret
       ELSE /\ inFlight' = inFlight
            /\ ret' = Settled("resetDatabase", "", <<>>, dropResult)
  /\ UNCHANGED <<now, nativeService, nativeRet>>

\* A second step that empties the store.
ResetSecondStepClearing(w) ==
  LET initResult == SvcInitDatabase(w) IN
  [initResult EXCEPT !.w = writeAll(initResult.w, <<>>)]

\* return await this.initDatabase()
ResetSecondStep(w) == SvcInitDatabase(w)

ResetFinishes ==
  LET initResult == ResetSecondStep(service) IN
  /\ inFlight.who = "reset"
  /\ service' = initResult.w
  /\ ret' = Settled("resetDatabase", "", <<>>,
                    [initResult EXCEPT !.issued = inFlight.issued \o initResult.issued])
  /\ inFlight' = NothingInFlight
  /\ UNCHANGED <<now, nativeService, nativeRet>>

NextAsync ==
  \/ Next
  \/ ResetBegins
  \/ ResetFinishes

SpecAsync == Init /\ [][NextAsync]_vars

\* ------------------------------------------ another tab on the durable key
\* A second runtime of the same origin runs the same statements over the
\* same durable key.  Its getItem and its setItem are two steps, and the
\* calls of this runtime, each of which runs its statement inside the call,
\* fall before, between or after them.
TabHikes == {Snowdon("1"), BenNevis("2", "2024-05-01T00:00:00.000Z")}

\* const rows = readAll() of the other tab's INSERT or UPDATE branch.
OtherTabReads(op, hike) ==
  /\ service.hasLocalStorage
  /\ inFlight.who # "tab"
  /\ op = "addHike" => Len(StoredRows) < MaxRows
  /\ inFlight' = [who |-> "tab", op |-> op, hike |-> hike,
                  rows |-> readAll(service), createdAt |-> ToISOString(now)]
  /\ UNCHANGED <<service, now, ret, nativeService, nativeRet>>

\* The list the other tab's statement makes of the list it read.
OtherTabRows(call, rows) ==
  IF call.op = "addHike"
    THEN RowsPushed(rows, InsertedRow(AddHikeParams(call.hike, call.createdAt)))
    ELSE UpdatedRows(rows, UpdateHikeParams(call.hike))

\* A write that reads the durable key again.
OtherTabWriteFresh(w, call) == writeAll(w, OtherTabRows(call, readAll(w)))

\* rows.push(...) or rows.map(...) on the list read, then writeAll(rows).
OtherTabWrite(w, call) == writeAll(w, OtherTabRows(call, call.rows))

OtherTabWrites ==
  /\ inFlight.who = "tab"
  /\ service' = OtherTabWrite(service, inFlight)
  /\ inFlight' = [who |-> "tabDone", op |-> inFlight.op, hike |-> inFlight.hike]
  /\ UNCHANGED <<now, ret, nativeService, nativeRet>>

NextTabs ==
  \/ Tick
  \/ \E hike \in TabHikes : AddHike(hike)
  \/ \E hike \in TabHikes : UpdateHike(hike)
  \/ GetAllHikes
  \/ \E op \in {"addHike", "updateHike"}, hike \in TabHikes : OtherTabReads(op, hike)
  \/ OtherTabWrites

SpecTabs == Init /\ [][NextTabs]_vars

\* ------------------------------------------ a database file made read-only
\* A device whose SQLite module opened a handle with a transaction function,
\* over a new database file.
InitReadOnly ==
  /\ service = Constructor(Unbuilt("ios", "sqlite", "missing", FALSE, NoItem))
  /\ now = 1
  /\ ret = NoCall
  /\ nativeService =
       [Constructor(Unbuilt("ios", "sqlite", "missing", FALSE, NoItem))
          EXCEPT !.tableExists = TRUE]
  /\ nativeRet = NoCall
  /\ inFlight = NothingInFlight

\* The file becomes one the engine cannot write.
BecomesReadOnly ==
  /\ ~service.readOnly
  /\ service' = [service EXCEPT !.readOnly = TRUE]
  /\ UNCHANGED <<now, ret, nativeService, nativeRet, inFlight>>

NextReadOnly ==
  \/ Next
  \/ BecomesReadOnly

SpecReadOnly == InitReadOnly /\ [][NextReadOnly]_vars

\* ------------------------------------- a durable key the store did not write
\* The web platform with a value under STORAGE_KEY left by something else:
\* text that is not JSON, or the JSON text 'null'.
InitFaults ==
  /\ \E text \in {Garbage, NullText} :
       service = Constructor(Unbuilt("web", "missing", "missing", TRUE, text))
  /\ now = 1
  /\ ret = NoCall
  /\ nativeService =
       [Constructor(Unbuilt("ios", "sqlite", "missing", FALSE, NoItem))
          EXCEPT !.tableExists = TRUE]
  /\ nativeRet = NoCall
  /\ inFlight = NothingInFlight

SpecFaults == InitFaults /\ [][Next]_vars

\* C1: create followed by getById on the created id returns a record equal
\* to the created hike in every caller-supplied field, whatever else is
\* stored (the created id being stored once).
RoundTrip ==
  [][(/\ ret.op = "addHike" /\ ret.resolved
      /\ ret'.op = "getHikeById" /\ ret'.id = ret.id
      /\ Cardinality(StoredWithId(ret.id)) = 1)
       => (/\ ret'.resolved
           /\ ret'.value # <<>>
           /\ \A f \in HikeFields : ret'.value[1][f] = ret.hike[1][f])]_vars

\* C2: getById resolves with a record of the requested id when one is
\* stored, and with null when none is.
GetByIdFindsOrNull ==
  ret.op = "getHikeById" =>
    /\ ret.resolved
    /\ IF StoredWithId(ret.id) # {}
         THEN ret.value # <<>> /\ ret.value[1].id = ret.id
         ELSE ret.value = <<>>

\* C3: no step changes the createdAt of a record that stays stored.
CreatedAtImmutable ==
  [][\A i \in DOMAIN StoredRows :
       (/\ Len(StoredRows') = Len(StoredRows)
        /\ StoredRows'[i].id = StoredRows[i].id)
         => StoredRows'[i].createdAt = StoredRows[i].createdAt]_vars

\* C4: listAll returns the stored records, each once, most recent date first
\* and records of the same date in insertion order; with pairwise distinct
\* dates the result is therefore strictly descending, whatever the insertion
\* order was.
ListAllOrdered ==
  ret.op = "getAllHikes" =>
    /\ ret.resolved
    /\ Len(ret.value) = Len(StoredRows)
    /\ \E p \in [DOMAIN StoredRows -> DOMAIN StoredRows] :
         /\ \A i, j \in DOMAIN StoredRows : i # j => p[i] # p[j]
         /\ \A i \in DOMAIN StoredRows : ret.value[i] = StoredRows[p[i]]
         /\ \A i, j \in DOMAIN StoredRows :
              i < j =>
                \/ DateGetTime(ret.value[i].date) > DateGetTime(ret.value[j].date)
                \/ /\ DateGetTime(ret.value[i].date) = DateGetTime(ret.value[j].date)
                   /\ p[i] < p[j]

\* A listAll over two records of different dates that were inserted oldest
\* first, and one over two records of the same date.
ListAllOrderedWitness ==
  /\ ret.op = "getAllHikes"
  /\ Len(StoredRows) = 2
  /\ DateGetTime(StoredRows[1].date) < DateGetTime(StoredRows[2].date)
  /\ ret.value = <<StoredRows[2], StoredRows[1]>>

\* C5: the service on the fallback store and the service on the native
\* engine give the same outcome for every call of every call sequence.
BackendEquivalence == ret = nativeRet

\* C6: an update of the record with id a changes no field of a record with
\* another id, and keeps the number of records and the id at every position.
UpdateIsolation ==
  [][ret'.op = "updateHike" =>
       /\ Len(StoredRows') = Len(StoredRows)
       /\ \A i \in DOMAIN StoredRows :
            /\ StoredRows'[i].id = StoredRows[i].id
            /\ StoredRows[i].id # ret'.id => StoredRows'[i] = StoredRows[i]]_vars

\* An update has written its hike into one of two records with different
\* ids; the other record carries other values.
UpdateIsolationWitness ==
  /\ ret.op = "updateHike"
  /\ ret.resolved
  /\ \E i, j \in DOMAIN StoredRows :
       /\ StoredRows[i].id = ret.id
       /\ StoredRows[i].name = ret.hike[1].name
       /\ StoredRows[i].createdAt = ret.id
       /\ StoredRows[j].id # ret.id
       /\ StoredRows[j].name # ret.hike[1].name

\* C7: after update of a complete hike whose id is stored, the record with
\* that id carries the hike's ten updatable fields and its id as before.
UpdateReplacesAllFields ==
  [][ret'.op = "updateHike" =>
       \A i \in DOMAIN StoredRows :
         StoredRows[i].id = ret'.id =>
           /\ i \in DOMAIN StoredRows'
           /\ StoredRows'[i].id = ret'.id
           /\ \A f \in UpdatableFields : StoredRows'[i][f] = ret'.hike[1][f]]_vars

\* An update with the hike that has empty optional fields has been applied
\* to a stored record.
UpdateReplacesAllFieldsWitness ==
  /\ ret.op = "updateHike"
  /\ ret.resolved
  /\ ret.hike[1].description = ""
  /\ \E i \in DOMAIN StoredRows :
       /\ StoredRows[i].id = ret.id
       /\ StoredRows[i].createdAt = ret.id
       /\ \A f \in UpdatableFields : StoredRows[i][f] = ret.hike[1][f]

\* C8: deleteById with an id no stored record has resolves and leaves the
\* stored list as it was.
DeleteAbsentIsNoOp ==
  [][(ret'.op = "deleteHike" /\ StoredWithId(ret'.id) = {})
       => (ret'.resolved /\ StoredRows' = StoredRows)]_vars

\* A delete has resolved for an id that is not stored while the store is
\* full, so that no record can have been removed by it.
DeleteAbsentIsNoOpWitness ==
  /\ ret.op = "deleteHike"
  /\ ret.resolved
  /\ StoredWithId(ret.id) = {}
  /\ Len(StoredRows) = MaxRows

\* C9: deleteAll leaves the store empty, and a listAll right after it
\* returns the empty sequence.
DeleteAllEmpties ==
  [][/\ ret'.op = "deleteAllHikes" => (ret'.resolved /\ StoredRows' = <<>>)
     /\ (ret.op = "deleteAllHikes" /\ ret'.op = "getAllHikes")
          => (ret'.resolved /\ ret'.value = <<>>)]_vars

\* A deleteAll has resolved and has written the empty list under the
\* durable key.
DeleteAllEmptiesWitness ==
  /\ ret.op = "deleteAllHikes"
  /\ ret.resolved
  /\ StoredRows = <<>>
  /\ service.hasLocalStorage
  /\ service.localStorage = JSONStringify(<<>>)

\* Number of records among the first i that do not have the id.
KeptUpTo(rows, id, i) == Cardinality({k \in 1..i : rows[k].id # id})

\* C10: deleteById removes the records with the id and keeps every other
\* record, with its fields and in the same relative order; create into an
\* empty store followed by deleteById of the created id leaves a store for
\* which listAll returns the empty sequence.
DeleteRemovesRecord ==
  [][/\ ret'.op = "deleteHike" =>
          /\ ret'.resolved
          /\ \A j \in DOMAIN StoredRows' : StoredRows'[j].id # ret'.id
          /\ Len(StoredRows') = KeptUpTo(StoredRows, ret'.id, Len(StoredRows))
          /\ \A i \in DOMAIN StoredRows :
               StoredRows[i].id # ret'.id =>
                 StoredRows'[KeptUpTo(StoredRows, ret'.id, i)] = StoredRows[i]
     /\ (/\ ret.op = "addHike" /\ Len(StoredRows) = 1
         /\ ret'.op = "deleteHike" /\ ret'.id = ret.id)
          => (StoredRows' = <<>> /\ SvcGetAllHikes(service').data = <<>>)]_vars

\* A delete has resolved and the one record left was created at the later
\* clock reading and has another id.
DeleteRemovesRecordWitness ==
  /\ ret.op = "deleteHike"
  /\ ret.resolved
  /\ Len(StoredRows) = 1
  /\ StoredRows[1].id # ret.id
  /\ StoredRows[1].createdAt = ToISOString(2)

\* C11: reset leaves the store empty whatever it held, and a listAll right
\* after a reset that resolved returns the empty sequence.
ResetEmpties ==
  [][/\ (ret'.op = "resetDatabase" /\ ret'.resolved) => StoredRows' = <<>>
     /\ (ret.op = "resetDatabase" /\ ret.resolved /\ ret'.op = "getAllHikes")
          => (ret'.resolved /\ ret'.value = <<>>)]_vars

\* reset has resolved on a store whose durable key holds the empty list its
\* drop-table wrote.
ResetEmptiesWitness ==
  /\ ret.op = "resetDatabase"
  /\ ret.resolved
  /\ service.hasLocalStorage
  /\ service.localStorage = JSONStringify(<<>>)
  /\ StoredRows = <<>>

\* C12: initialize resolves and leaves the stored list exactly as it was,
\* every time it is called.
InitializePreserves ==
  [][ret'.op = "initDatabase" => (ret'.resolved /\ StoredRows' = StoredRows)]_vars

\* initialize has resolved on a full store.
InitializePreservesWitness ==
  /\ ret.op = "initDatabase"
  /\ ret.resolved
  /\ Len(StoredRows) = MaxRows

\* C14: no two stored records have the same id.
UniqueIds ==
  \A i, j \in DOMAIN StoredRows : StoredRows[i].id = StoredRows[j].id => i = j

\* C13: create stores the empty string for every field that was left out,
\* undefined or null and the given value for every other field, and no stored
\* record has an undefined or null field.
Defaulting ==
  /\ \A i \in DOMAIN StoredRows : \A f \in DOMAIN StoredRows[i] :
       StoredRows[i][f] \notin {Undefined, Null}
  /\ (ret.op = "addHike" /\ ret.resolved) =>
       LET r == StoredRows[Len(StoredRows)]
           h == ret.hike[1]
       IN \A f \in HikeFields :
            r[f] = IF h[f] \in {Undefined, Null} THEN "" ELSE h[f]

\* create was called without the optional fields and the record it stored
\* holds the empty string in each of them.
DefaultingWitness ==
  /\ ret.op = "addHike"
  /\ ret.resolved
  /\ ret.hike = <<OmittedOptional>>
  /\ LET r == StoredRows[Len(StoredRows)] IN
       /\ r.name = "Snowdon"
       /\ r.description = ""
       /\ r.weather = ""
       /\ r.rating = ""
       /\ r.companions = ""

\* The calls whose statement raises an exception in the fallback store: the
\* ones that call a method of the list readAll() returned, when it is null.
Throws(w, op) ==
  /\ ReadsNull(w)
  /\ op \in {"addHike", "getAllHikes", "getHikeById", "updateHike", "deleteHike",
             "getDatabaseStats"}

\* C15: an exported operation rejects, with the Result's error message, when
\* the executor's Result is a failure, and resolves when it is a success.
RejectsOnFailure ==
  [][now' = now =>
       /\ Throws(service, ret'.op) =>
            (~ret'.resolved /\ ret'.error = TypeError /\ ret'.value = <<>>)
       /\ ~Throws(service, ret'.op) => (ret'.resolved /\ ret'.error = "")]_vars

\* getAllHikes has rejected with the message of the exception its statement
\* raised.
RejectsOnFailureWitness ==
  /\ ret.op = "getAllHikes"
  /\ ~ret.resolved
  /\ ret.error = TypeError
  /\ ReadsNull(service)

\* C16: the promise of executeTransaction resolves with a Result and never
\* rejects: with a success Result when the statement ran, with a failure
\* Result carrying the message when the statement raised an exception.
ExecutorAlwaysResolves ==
  [][now' = now =>
       /\ ret'.executor \in {"success", "failure"}
       /\ ret'.executor = "failure" <=> Throws(service, ret'.op)
       /\ ret'.executor = "failure" => ret'.error = TypeError]_vars

\* The statement of addHike raised an exception and the executor resolved
\* with a failure Result.
ExecutorAlwaysResolvesWitness ==
  /\ ret.op = "addHike"
  /\ ret.executor = "failure"
  /\ ret.error = TypeError
  /\ service.localStorage = NullText

\* C17: the backend bound at construction is never replaced.
BackendNeverChanges == [][service'.db = service.db]_vars

\* C19: a call on a service whose bound backend has no transaction function
\* binds a fallback store and runs its statement there: the call gets the
\* fallback store's Result, never the failure 'Database transaction function
\* is not available', and a create is kept by the store now bound.
RebindsAndRetries ==
  [][(now' = now /\ ~HasTransaction(service.db)) =>
       /\ service'.db = "mock"
       /\ ret'.executor = "success"
       /\ ret'.resolved
       /\ ret'.op \in {"getAllHikes", "getHikeById"} => ret'.value = <<>>
       /\ ret'.op = "addHike" =>
            readAll(service') =
              <<InsertedRow(AddHikeParams(ret'.hike[1], ToISOString(now)))>>
       /\ ret'.op # "addHike" => readAll(service') = <<>>]_vars

\* The first call on a handle without a transaction function was a create:
\* the fallback store is bound and holds the record.
RebindsAndRetriesWitness ==
  /\ service.openDatabase = "missing"
  /\ service.openDatabaseSync = "sqliteNoTx"
  /\ service.db = "mock"
  /\ ret.op = "addHike"
  /\ ret.resolved
  /\ Len(readAll(service)) = 1

\* The handle the two probes obtain, the older entry point first.
ProbedHandle(w) ==
  IF w.openDatabase \in {"sqlite", "sqliteNoTx"} THEN w.openDatabase
  ELSE IF w.openDatabaseSync \in {"sqlite", "sqliteNoTx"} THEN w.openDatabaseSync
  ELSE Null

\* C20: before the first call the fallback store is bound on the web, and
\* elsewhere the handle of the first probe that succeeds is bound, the
\* fallback store when both fail or the handle has no transaction function.
StartupSelection ==
  ret = NoCall =>
    service.db = IF service.platform = "web" THEN "mock"
                 ELSE IF ProbedHandle(service) = "sqlite" THEN "sqlite"
                 ELSE "mock"

\* C18: a caller writing to a record or to the sequence it was returned
\* changes nothing of what listAll and getById return afterwards.
ReturnedAreCopies ==
  [][ret'.op = "mutateReturned" =>
       /\ SvcGetAllHikes(service').data = SvcGetAllHikes(service).data
       /\ \A id \in Ids :
            SvcGetHikeById(service', id).data = SvcGetHikeById(service, id).data]_vars

\* C21: reset hands drop-table to the backend first and create-table only
\* when the drop succeeded; when the drop fails reset rejects with the drop's
\* message, no create-table is issued and the table is as it was.
ResetShortCircuits ==
  [][ResetDatabase =>
       LET dropResult == ExecuteTransaction(service, DropTableSQL, <<>>) IN
       IF dropResult.success
         THEN ret'.issued = <<DropTableSQL, CreateTableSQL>>
         ELSE /\ ~ret'.resolved
              /\ ret'.error = dropResult.error
              /\ ret'.issued = <<DropTableSQL>>
              /\ service'.tableExists = service.tableExists
              /\ service'.table = service.table]_vars

\* reset has rejected with the engine's message for the drop, having issued
\* the drop alone, and the table still holds its rows.
ResetShortCircuitsWitness ==
  /\ ret.op = "resetDatabase"
  /\ ~ret.resolved
  /\ ret.error = ReadOnlyError
  /\ ret.issued = <<DropTableSQL>>
  /\ service.tableExists
  /\ service.table # <<>>

\* C22: update with an id no stored record has resolves and leaves the
\* stored list as it was: no record is changed and none is inserted.
UpdateAbsentIsNoOp ==
  [][(ret'.op = "updateHike" /\ StoredWithId(ret'.id) = {})
       => (ret'.resolved /\ StoredRows' = StoredRows)]_vars

\* An update has resolved for an id that is not stored, on a store that
\* holds a record.
UpdateAbsentIsNoOpWitness ==
  /\ ret.op = "updateHike"
  /\ ret.resolved
  /\ StoredWithId(ret.id) = {}
  /\ Len(StoredRows) = 1

\* C23: while the durable key holds text that cannot be parsed every call
\* resolves as on an empty list: listAll and getById find nothing, the count
\* is 0, a create leaves a list of exactly the created record, the other
\* writes leave the empty list, and a read leaves the text where it is.
UnparseableIsEmpty ==
  [][(now' = now /\ service.hasLocalStorage /\ service.localStorage = Garbage) =>
       /\ ret'.resolved
       /\ ret'.executor = "success"
       /\ ret'.op \in {"getAllHikes", "getHikeById"} => ret'.value = <<>>
       /\ ret'.op = "getDatabaseStats" => ret'.value = <<[hikeCount |-> 0]>>
       /\ ret'.op \in {"getAllHikes", "getHikeById", "getDatabaseStats", "initDatabase"}
            => service'.localStorage = Garbage
       /\ ret'.op = "addHike" =>
            StoredRows' = <<InsertedRow(AddHikeParams(ret'.hike[1], ToISOString(now)))>>
       /\ ret'.op \in {"updateHike", "deleteHike", "deleteAllHikes", "resetDatabase"}
            => service'.localStorage = JSONStringify(<<>>)]_vars

\* listAll has resolved with the empty sequence over text that does not
\* parse.
UnparseableIsEmptyWitness ==
  /\ ret.op = "getAllHikes"
  /\ ret.resolved
  /\ ret.value = <<>>
  /\ service.hasLocalStorage
  /\ service.localStorage = Garbage

DuplicateIdAppends ==
  [][(ret'.op = "addHike" /\ now' = now /\ StoredWithId(ret'.id) # {}) =>
       /\ ret'.resolved
       /\ StoredRows' =
            Append(StoredRows,
                   InsertedRow(AddHikeParams(ret'.hike[1], ToISOString(now))))]_vars

\* create has resolved and the list holds two records with the id it was
\* given, the created one last.
DuplicateIdAppendsWitness ==
  /\ ret.op = "addHike"
  /\ ret.resolved
  /\ Len(StoredRows) = 2
  /\ StoredRows[1].id = ret.id
  /\ StoredRows[2].id = ret.id
  /\ StoredRows[2].name = ret.hike[1].name

\* C26: the create-table step that ends a reset removes nothing: whatever
\* was stored after the drop-table step, a record created in between
\* included, is stored when reset has resolved.
ResetNotAtomic ==
  [][(inFlight.who = "reset" /\ inFlight'.who = "none") =>
       /\ ret'.op = "resetDatabase"
       /\ ret'.resolved
       /\ ret'.issued = <<DropTableSQL, CreateTableSQL>>
       /\ StoredRows' = StoredRows]_vars

\* reset has resolved, having issued both statements, and a record is
\* stored.
ResetNotAtomicWitness ==
  /\ ret.op = "resetDatabase"
  /\ ret.resolved
  /\ ret.issued = <<DropTableSQL, CreateTableSQL>>
  /\ inFlight.who = "none"
  /\ Len(StoredRows) = 1

\* C27: listAll, getById, stats and initialize leave the stored list as it
\* was, order included, under the durable key and in the in-process list.
ReadsLeaveStore ==
  [][ret'.op \in {"getAllHikes", "getHikeById", "getDatabaseStats", "initDatabase"} =>
       /\ service'.localStorage = service.localStorage
       /\ service'.memoryRows = service.memoryRows
       /\ StoredRows' = StoredRows]_vars

\* listAll has returned the in-process list in another order than the one
\* it is stored in.
ReadsLeaveStoreWitness ==
  /\ ret.op = "getAllHikes"
  /\ ret.resolved
  /\ ~service.hasLocalStorage
  /\ Len(StoredRows) = 2
  /\ ret.value = <<StoredRows[2], StoredRows[1]>>
  /\ StoredRows[1] # StoredRows[2]

\* C28: deleteById on a list that holds several records with the id
\* resolves and leaves no record with the id.
DeleteRemovesAll ==
  [][(/\ ret'.op = "deleteHike"
      /\ now' = now
      /\ Cardinality({i \in DOMAIN StoredRows : StoredRows[i].id = ret'.id}) >= 2) =>
       /\ ret'.resolved
       /\ \A i \in DOMAIN StoredRows' : StoredRows'[i].id # ret'.id]_vars

\* deleteById has resolved and the list, whose records all had one id, is
\* empty.
DeleteRemovesAllWitness ==
  /\ ret.op = "deleteHike"
  /\ ret.resolved
  /\ StoredRows = <<>>

\* C29: while setItem throws, create, update, deleteById, deleteAll and
\* reset still get a success Result and resolve, and the value under the
\* durable key stays what it was.
WriteFailureIsSilent ==
  [][(/\ now' = now
      /\ service.setItemThrows
      /\ ret'.op \in {"addHike", "updateHike", "deleteHike", "deleteAllHikes",
                      "resetDatabase"}) =>
       /\ ret'.executor = "success"
       /\ ret'.resolved
       /\ service'.localStorage = service.localStorage]_vars

\* create has resolved while setItem throws and no record with its id is
\* stored.
WriteFailureIsSilentWitness ==
  /\ ret.op = "addHike"
  /\ ret.resolved
  /\ service.setItemThrows
  /\ StoredWithId(ret.id) = {}

\* C30: after construction isInitialized is true and a backend is bound,
\* on every platform and whether or not an open attempt threw, and no call
\* fails with 'Database not initialized'.
AlwaysInitialized ==
  /\ service.isInitialized
  /\ service.db # Null
  /\ ret.error # "Database not initialized"

\* initialize has resolved on a service constructed where the open attempt
\* threw.
AlwaysInitializedWitness ==
  /\ service.platform = "ios"
  /\ service.openDatabase = "throws"
  /\ service.isInitialized
  /\ service.db = "mock"
  /\ ret.op = "initDatabase"
  /\ ret.resolved

====
